---------------------------- MODULE Spec2Model ----------------------------
(***************************************************************************)
(* lumberjack: a leveled logger with pluggable backends.                   *)
(*                                                                         *)
(* The module models                                                       *)
(*   - the HTTP backend (httpbackend.go): the intake channel logchan, the  *)
(*     ticker, the Stop channel and the goroutine startClient that drains  *)
(*     the channel into batches handed to doSend;                          *)
(*   - the Logger (lumberjack.go): the enabled levels, the backend map,    *)
(*     the mutex and the leveled log methods that dispatch to backends.    *)
(*                                                                         *)
(* Spec       producers call HttpClientBackend.Log directly.               *)
(* FairSpec   Spec with the scheduling fairness of the goroutine.          *)
(* LoggerSpec callers go through a Logger holding a print and an http      *)
(*            backend.                                                     *)
(***************************************************************************)
EXTENDS Integers, Sequences, FiniteSets, TLC

(***************************************************************************)
(* Bounds of the model.                                                    *)
(***************************************************************************)
\* make(chan LogEntry, 50) in the source; the model scales the capacity
\* down so that a full channel is reached with few records.
LogchanCap == 2

\* largest batch threshold (bufsize) tried
MaxBufsize == 2

\* Log calls made by each producer
MaxLogs == 2

\* the count of loop iterations taken through the stop case saturates here
MaxStopObserved == 2

\* Logger methods called by all callers together
MaxCalls == 2

\* the largest LogLevel byte the encoder and the decoder are run on (a
\* LogLevel is a byte; the enumeration ends at 5)
MaxLevelByte == 7

(***************************************************************************)
(* LogLevel (httpbackend.go: const block)                                  *)
(***************************************************************************)
INFO == 0
WARN == 1
ERROR == 2
CRITICAL == 3
FATAL == 4
DEBUG == 5

LogLevels == {INFO, WARN, ERROR, CRITICAL, FATAL, DEBUG}

\* the producers that call HttpClientBackend.Log concurrently
Producers == {"p1", "p2"}

\* the bufsize arguments NewHttpClientBackend is constructed with
Bufsizes == {-1} \cup (0 .. MaxBufsize)

VARIABLES
    bufsize,       \* startClient's bufsize parameter
    logchan,       \* h.logchan: the records in the buffered channel
    Stop,          \* h.Stop: TRUE once the channel has been closed
    timerC,        \* h.timer.C: ticks pending in the ticker's channel (cap 1)
    buffer,        \* startClient's buffer.Entries
    taskPc,        \* startClient's position: "select", "doSend", "returned"
    trigger,       \* the select case the doSend in flight was called from,
                   \* "none" when no doSend is in flight
    internalLog,   \* number of logInternal(ERROR, err) calls made
    stopObserved,  \* loop iterations taken through case <-stop (saturating)
    deliveries,    \* history: the batches passed to doSend, in call order
    arrived,       \* history: the records in the order they entered logchan
    prodPc,        \* producer -> "idle" or "send" (inside Log, at the send)
    prodCalls,     \* producer -> number of Log calls made
    logLevels,     \* Logger.logLevels: the enabled levels
    backends,      \* Logger.backends: name -> backend
    mutex,         \* Logger's sync.Mutex: "free" or the caller holding it
    callPc,        \* caller -> position inside the Logger method it runs
    callOp,        \* caller -> the method it runs and its level argument
    callTodo,      \* caller -> backends its range loop has not visited yet
    callCount,     \* caller -> number of Logger methods called
    callResult,    \* caller -> what its last registry method returned
    printed,       \* history: the entries printLog printed for a backend
    forwarded,     \* history: entry, backend and whether the level of the
                   \* entry was enabled when the method was called
    exited,        \* TRUE once os.Exit(1) has been called
    lastAdded,     \* history: name -> the backend of the last AddBackend
                   \* that returned nil for it, while not removed since
    codecIn,       \* the value handed to an encoder
    codecData,     \* the JSON document in hand
    codecOut,      \* the variable a decoder stores into
    codecErr,      \* what the last encoder or decoder call returned
    codecPc        \* position of the encode/decode run

dispVars == <<bufsize, logchan, Stop, timerC, buffer, taskPc, trigger, internalLog, stopObserved, deliveries, arrived>>
prodVars == <<prodPc, prodCalls>>
loggerVars == <<logLevels, backends, mutex, callPc, callOp, callTodo,
                callCount, callResult, printed, forwarded, exited>>
codecVars == <<codecIn, codecData, codecOut, codecErr, codecPc>>
auxVars == <<lastAdded, codecVars>>
vars == <<dispVars, prodVars, loggerVars, auxVars>>

(***************************************************************************)
(* Helpers                                                                 *)
(***************************************************************************)
Min(a, b) == IF a < b THEN a ELSE b

RECURSIVE Flatten(_)
Flatten(batches) ==
    IF batches = <<>> THEN <<>>
    ELSE Head(batches) \o Flatten(Tail(batches))

Range(s) == {s[i] : i \in 1 .. Len(s)}

IsPrefix(s, t) ==
    /\ Len(s) <= Len(t)
    /\ \A i \in 1 .. Len(s) : s[i] = t[i]

NoDuplicates(s) == \A i, j \in 1 .. Len(s) : s[i] = s[j] => i = j

\* the LogEntry producer p passes to its n-th Log call
EntryOf(p, n) == [Level |-> IF p = "p1" THEN INFO ELSE ERROR,
                  Caller |-> p, Line |-> n]

(***************************************************************************)
(* HttpClientBackend                                                       *)
(***************************************************************************)
\* mutant: the send proceeds although the channel is full
ChanSendReady_OneMore(ch) == Len(ch) <= LogchanCap

\* a send on the buffered channel proceeds iff the channel has a free slot
ChanSendReady(ch) == Len(ch) < LogchanCap

\* h.logchan <- *entry
ChanSend(ch, entry) == Append(ch, entry)

\* entry := <-logchan
ChanRecvEntry(ch) == Head(ch)
ChanRecvRest(ch) == Tail(ch)

\* mutant: the entry is put in front of the batch
AppendEntry_Front(buf, entry) == <<entry>> \o buf

\* buffer.Entries = append(buffer.Entries, entry)
AppendEntry(buf, entry) == Append(buf, entry)

\* mutant: the batch is sent one record late
KeepBuffering_OffByOne(n, buf) == n > 0 /\ Len(buf) <= n

\* the two nested ifs of the arrival case: TRUE when the loop continues
\* without sending
KeepBuffering(n, buf) == n > 0 /\ Len(buf) < n

\* mutant: a tick sends whatever the batch holds, also nothing
TickSends_Always(buf) == Len(buf) >= 0

\* mutant: a tick leaves a batch of one record waiting
TickSends_MoreThanOne(buf) == Len(buf) > 1

\* the test of the tick case
TickSends(buf) == Len(buf) > 0

\* mutant: the batch is not cleared
ClearBuffer_Keep(buf, err) == buf

\* mutant: a failed batch is kept for the next attempt
ClearBuffer_OnSuccess(buf, err) == IF err THEN buf ELSE <<>>

\* buffer.Entries = buffer.Entries[:0] after doSend returned with error err
ClearBuffer(buf, err) == <<>>

\* NewHttpClientBackend: the channels are empty, the ticker is running and
\* startClient is started at its select
InitBackend ==
    /\ bufsize \in Bufsizes
    /\ logchan = <<>>
    /\ Stop = FALSE
    /\ timerC = 0
    /\ buffer = <<>>
    /\ taskPc = "select"
    /\ trigger = "none"
    /\ internalLog = 0
    /\ stopObserved = 0
    /\ deliveries = <<>>
    /\ arrived = <<>>

\* the ticker delivers a tick into timer.C; a tick is dropped when the
\* channel still holds one.  The ticker is stopped only by the deferred
\* timer.Stop(), which runs when startClient returns.
TimerFire ==
    /\ ~exited
    /\ taskPc # "returned"
    /\ timerC = 0
    /\ timerC' = 1
    /\ UNCHANGED <<auxVars, bufsize, logchan, Stop, buffer, taskPc, trigger,
                   internalLog, stopObserved, deliveries, arrived, prodVars, loggerVars>>

\* close(h.Stop), done once by the implementer
CloseStop ==
    /\ ~exited
    /\ Stop = FALSE
    /\ Stop' = TRUE
    /\ UNCHANGED <<auxVars, bufsize, logchan, timerC, buffer, taskPc, trigger,
                   internalLog, stopObserved, deliveries, arrived, prodVars, loggerVars>>

\* case entry := <-logchan, up to the call of doSend
RecvEntry ==
    /\ ~exited
    /\ taskPc = "select"
    /\ logchan # <<>>
    /\ LET buf == AppendEntry(buffer, ChanRecvEntry(logchan)) IN
        /\ buffer' = buf
        /\ logchan' = ChanRecvRest(logchan)
        /\ IF KeepBuffering(bufsize, buf)
           THEN UNCHANGED <<auxVars, taskPc, trigger, deliveries>>
           ELSE /\ taskPc' = "doSend"
                /\ trigger' = "entry"
                /\ deliveries' = Append(deliveries, buf)
    /\ UNCHANGED <<auxVars, bufsize, Stop, timerC, internalLog, stopObserved,
                   arrived, prodVars, loggerVars>>

\* case <-timer.C, up to the call of doSend
TimerTick ==
    /\ ~exited
    /\ taskPc = "select"
    /\ timerC = 1
    /\ timerC' = 0
    /\ IF TickSends(buffer)
       THEN /\ taskPc' = "doSend"
            /\ trigger' = "tick"
            /\ deliveries' = Append(deliveries, buffer)
       ELSE UNCHANGED <<auxVars, taskPc, trigger, deliveries>>
    /\ UNCHANGED <<auxVars, bufsize, logchan, Stop, buffer, internalLog,
                   stopObserved, arrived, prodVars, loggerVars>>

\* mutant: the break leaves the for loop and startClient returns
AfterStopCase_Returns == "returned"

\* the position startClient is at after the body of case <-stop: the break
\* leaves the select statement, and the for loop starts its next iteration
AfterStopCase == "select"

\* case <-stop: a closed channel is always ready to receive from
StopCase ==
    /\ ~exited
    /\ taskPc = "select"
    /\ Stop = TRUE
    /\ taskPc' = AfterStopCase
    /\ stopObserved' = Min(stopObserved + 1, MaxStopObserved)
    /\ UNCHANGED <<auxVars, bufsize, logchan, Stop, timerC, buffer, trigger,
                   internalLog, deliveries, arrived, prodVars, loggerVars>>

\* mutant: the error report is logged through the http backend
logInternal_Enqueue(ch, err) ==
    IF err /\ ChanSendReady(ch)
    THEN ChanSend(ch, [Level |-> ERROR, Caller |-> "startClient", Line |-> 0])
    ELSE ch

\* what logInternal(ERROR, err) leaves in a backend's channel:
\* sendToInternal builds a LogEntry and hands it to printLog, which prints
\* it; it sends on no channel
logInternal(ch, err) == ch

\* doSend returns nil or an error (json.Marshal or http.Post failed); an
\* error goes to logInternal; the buffer is cleared and the loop goes on
DoSendReturn ==
    /\ ~exited
    /\ taskPc = "doSend"
    /\ \E err \in BOOLEAN :
        /\ internalLog' = IF err THEN internalLog + 1 ELSE internalLog
        /\ logchan' = logInternal(logchan, err)
        /\ buffer' = ClearBuffer(buffer, err)
    /\ taskPc' = "select"
    /\ trigger' = "none"
    /\ UNCHANGED <<auxVars, bufsize, Stop, timerC, stopObserved,
                   deliveries, arrived, prodVars, loggerVars>>

\* a producer calls h.Log(entry) and reaches the channel send
LogCall(p) ==
    /\ prodPc[p] = "idle"
    /\ prodCalls[p] < MaxLogs
    /\ prodCalls' = [prodCalls EXCEPT ![p] = @ + 1]
    /\ prodPc' = [prodPc EXCEPT ![p] = "send"]
    /\ UNCHANGED <<auxVars, dispVars, loggerVars>>

\* h.logchan <- *entry completes and Log returns
LogSend(p) ==
    /\ prodPc[p] = "send"
    /\ ChanSendReady(logchan)
    /\ logchan' = ChanSend(logchan, EntryOf(p, prodCalls[p]))
    /\ arrived' = Append(arrived, EntryOf(p, prodCalls[p]))
    /\ prodPc' = [prodPc EXCEPT ![p] = "idle"]
    /\ UNCHANGED <<auxVars, bufsize, Stop, timerC, buffer, taskPc, trigger,
                   internalLog, stopObserved, deliveries, prodCalls,
                   loggerVars>>


(***************************************************************************)
(* Logger                                                                  *)
(***************************************************************************)
\* the goroutines that call methods of the Logger
Callers == {"c1", "c2"}

\* the leveled methods of Logger
Methods == {"Info", "Infof", "Warn", "Warnf", "Error", "Errorf",
            "Critical", "Criticalf", "Fatal", "Fatalf", "Debug", "Debugf"}

\* the LogLevel a leveled method passes to levelSet and to log
MethodLevel(m) ==
    CASE m \in {"Info", "Infof"} -> INFO
      [] m \in {"Warn", "Warnf"} -> WARN
      [] m \in {"Error", "Errorf"} -> ERROR
      [] m \in {"Critical", "Criticalf"} -> CRITICAL
      [] m \in {"Fatal", "Fatalf"} -> FATAL
      [] m \in {"Debug", "Debugf"} -> DEBUG

\* the methods whose body is wrapped in if l.levelSet(...)
MethodChecksLevel(m) == m \notin {"Fatal", "Fatalf"}

\* mutant: Fatal and Fatalf return like the other methods
MethodExits_None(m) == FALSE

\* the methods that call os.Exit(1) after l.log
MethodExits(m) == m \in {"Fatal", "Fatalf"}

\* defaultLevels
defaultLevels == {INFO, WARN, ERROR, CRITICAL, FATAL}

\* validLevel
validLevel(level) == level >= INFO /\ level <= DEBUG

\* the LogLevel arguments AddLevel and RemoveLevel are called with: the
\* levels and a byte outside the enumeration
LevelArgs == LogLevels \cup {DEBUG + 1}

\* levelSet: the map lookup made under the mutex
levelSet(levels, level) == level \in levels

\* the number of Logger methods called so far
TotalCalls == callCount["c1"] + callCount["c2"]

\* mutant: two values of the map are exchanged
logLevelNameToValue_Swapped ==
    [s \in {"INFO", "WARN", "ERROR", "CRITICAL", "FATAL", "DEBUG"} |->
        CASE s = "INFO" -> INFO
          [] s = "WARN" -> ERROR
          [] s = "ERROR" -> WARN
          [] s = "CRITICAL" -> CRITICAL
          [] s = "FATAL" -> FATAL
          [] s = "DEBUG" -> DEBUG]

\* logLevelNameToValue
logLevelNameToValue ==
    [s \in {"INFO", "WARN", "ERROR", "CRITICAL", "FATAL", "DEBUG"} |->
        CASE s = "INFO" -> INFO
          [] s = "WARN" -> WARN
          [] s = "ERROR" -> ERROR
          [] s = "CRITICAL" -> CRITICAL
          [] s = "FATAL" -> FATAL
          [] s = "DEBUG" -> DEBUG]

\* logLevelValueToName
logLevelValueToName ==
    [l \in {INFO, WARN, ERROR, CRITICAL, FATAL, DEBUG} |->
        CASE l = INFO -> "INFO"
          [] l = WARN -> "WARN"
          [] l = ERROR -> "ERROR"
          [] l = CRITICAL -> "CRITICAL"
          [] l = FATAL -> "FATAL"
          [] l = DEBUG -> "DEBUG"]

\* LogLevel.String
String(l) ==
    IF l \in DOMAIN logLevelValueToName THEN logLevelValueToName[l] ELSE ""

\* what a registry method returns: the value (GetBackend only) and the
\* error, nil or the message and argument given to fmt.Errorf
NoResult == [value |-> "none", err |-> "none", arg |-> "none"]
NilError == [value |-> "none", err |-> "nil", arg |-> "none"]
Errorf(msg, arg) == [value |-> "none", err |-> msg, arg |-> arg]

NoOp == [method |-> "none", level |-> INFO, enabled |-> FALSE,
         name |-> "none", backend |-> "none"]

\* buildLogEntry for the call caller c is making
CallEntry(c) == [Level |-> callOp[c].level, Caller |-> c,
                 Line |-> callCount[c]]

\* NewLogger or NewLoggerWithDefaults, followed by the README's
\* AddBackend("http", hb)
InitLogger ==
    /\ \E ctor \in {"NewLogger", "NewLoggerWithDefaults"} :
        /\ logLevels = IF ctor = "NewLogger" THEN {} ELSE defaultLevels
        /\ backends = IF ctor = "NewLogger"
                      THEN [n \in {"http"} |-> "HttpClientBackend"]
                      ELSE [n \in {"print", "http"} |->
                              IF n = "print" THEN "PrintBackend"
                              ELSE "HttpClientBackend"]
    /\ mutex = "free"
    /\ callPc = [c \in Callers |-> "idle"]
    /\ callOp = [c \in Callers |-> NoOp]
    /\ callTodo = [c \in Callers |-> {}]
    /\ callCount = [c \in Callers |-> 0]
    /\ callResult = [c \in Callers |-> NoResult]
    /\ printed = <<>>
    /\ forwarded = <<>>
    /\ exited = FALSE
    /\ lastAdded = backends

\* a caller invokes one of the leveled methods
CallMethod(c, m) ==
    /\ ~exited
    /\ callPc[c] = "idle"
    /\ TotalCalls < MaxCalls
    /\ callCount' = [callCount EXCEPT ![c] = @ + 1]
    /\ callOp' = [callOp EXCEPT ![c] =
                    [method |-> m, level |-> MethodLevel(m),
                     enabled |-> MethodLevel(m) \in logLevels,
                     name |-> "none", backend |-> "none"]]
    /\ callPc' = [callPc EXCEPT ![c] =
                    IF MethodChecksLevel(m) THEN "levelSet" ELSE "log"]
    /\ UNCHANGED <<auxVars, dispVars, prodVars, logLevels, backends, mutex, callTodo,
                   callResult, printed, forwarded, exited>>

\* if l.levelSet(S): Lock, look the level up, Unlock
LevelCheck(c) ==
    /\ ~exited
    /\ callPc[c] = "levelSet"
    /\ mutex = "free"
    /\ LET exists == levelSet(logLevels, callOp[c].level) IN
        /\ callOp' = [callOp EXCEPT ![c] =
                        IF exists THEN [@ EXCEPT !.enabled = TRUE] ELSE NoOp]
        /\ callPc' = [callPc EXCEPT ![c] = IF exists THEN "log" ELSE "idle"]
    /\ UNCHANGED <<auxVars, dispVars, prodVars, logLevels, backends, mutex, callTodo,
                   callCount, callResult, printed, forwarded, exited>>

\* l.log: buildLogEntry, then sendToBackends takes the mutex and starts to
\* range over l.backends
SendLock(c) ==
    /\ ~exited
    /\ callPc[c] = "log"
    /\ mutex = "free"
    /\ mutex' = c
    /\ callTodo' = [callTodo EXCEPT ![c] = DOMAIN backends]
    /\ callPc' = [callPc EXCEPT ![c] = "dispatch"]
    /\ UNCHANGED <<auxVars, dispVars, prodVars, logLevels, backends, callOp, callCount,
                   callResult, printed, forwarded, exited>>

\* backend.Log(entry) on a PrintBackend: printLog prints the entry
DispatchPrint(c, name) ==
    /\ ~exited
    /\ callPc[c] = "dispatch"
    /\ name \in callTodo[c]
    /\ backends[name] = "PrintBackend"
    /\ printed' = Append(printed, CallEntry(c))
    /\ forwarded' = Append(forwarded, [entry |-> CallEntry(c), name |-> name,
                                       enabled |-> callOp[c].enabled])
    /\ callTodo' = [callTodo EXCEPT ![c] = @ \ {name}]
    /\ UNCHANGED <<auxVars, dispVars, prodVars, logLevels, backends, mutex, callPc,
                   callOp, callCount, callResult, exited>>

\* backend.Log(entry) on the HttpClientBackend: h.logchan <- *entry
DispatchHttp(c, name) ==
    /\ ~exited
    /\ callPc[c] = "dispatch"
    /\ name \in callTodo[c]
    /\ backends[name] = "HttpClientBackend"
    /\ ChanSendReady(logchan)
    /\ logchan' = ChanSend(logchan, CallEntry(c))
    /\ arrived' = Append(arrived, CallEntry(c))
    /\ forwarded' = Append(forwarded, [entry |-> CallEntry(c), name |-> name,
                                       enabled |-> callOp[c].enabled])
    /\ callTodo' = [callTodo EXCEPT ![c] = @ \ {name}]
    /\ UNCHANGED <<auxVars, bufsize, Stop, timerC, buffer, taskPc, trigger,
                   internalLog, stopObserved, deliveries, prodVars, logLevels,
                   backends, mutex, callPc, callOp, callCount, callResult,
                   printed, exited>>

\* the range loop is over: the deferred Unlock runs, sendToBackends and log
\* return
SendUnlock(c) ==
    /\ ~exited
    /\ callPc[c] = "dispatch"
    /\ callTodo[c] = {}
    /\ mutex' = "free"
    /\ callPc' = [callPc EXCEPT ![c] =
                    IF MethodExits(callOp[c].method) THEN "exit" ELSE "idle"]
    /\ callOp' = [callOp EXCEPT ![c] = NoOp]
    /\ UNCHANGED <<auxVars, dispVars, prodVars, logLevels, backends, callTodo,
                   callCount, callResult, printed, forwarded, exited>>

\* os.Exit(1) at the end of Fatal and Fatalf
Exit(c) ==
    /\ ~exited
    /\ callPc[c] = "exit"
    /\ exited' = TRUE
    /\ UNCHANGED <<auxVars, dispVars, prodVars, logLevels, backends, mutex, callPc,
                   callOp, callTodo, callCount, callResult, printed,
                   forwarded>>

\* a caller invokes AddLevel(level) or RemoveLevel(level)
CallLevelOp(c, m, level) ==
    /\ ~exited
    /\ callPc[c] = "idle"
    /\ TotalCalls < MaxCalls
    /\ callCount' = [callCount EXCEPT ![c] = @ + 1]
    /\ callOp' = [callOp EXCEPT ![c] =
                    [method |-> m, level |-> level, enabled |-> FALSE,
                     name |-> "none", backend |-> "none"]]
    /\ callPc' = [callPc EXCEPT ![c] = "check"]
    /\ callResult' = [callResult EXCEPT ![c] = NoResult]
    /\ UNCHANGED <<auxVars, dispVars, prodVars, logLevels, backends, mutex, callTodo,
                   printed, forwarded, exited>>

\* mutant: the levelSet lookup is left out
AddLevelCond_Unchecked(levels, level) == validLevel(level)

\* the condition of AddLevel: !l.levelSet(level) && validLevel(level)
AddLevelCond(levels, level) ==
    ~levelSet(levels, level) /\ validLevel(level)

\* the condition of RemoveLevel: l.levelSet(level)
RemoveLevelCond(levels, level) == levelSet(levels, level)

\* the if of AddLevel and RemoveLevel: levelSet runs under the mutex; the
\* else branch returns the error
LevelOpCheck(c) ==
    /\ ~exited
    /\ callPc[c] = "check"
    /\ mutex = "free"
    /\ LET ok == IF callOp[c].method = "AddLevel"
                 THEN AddLevelCond(logLevels, callOp[c].level)
                 ELSE RemoveLevelCond(logLevels, callOp[c].level) IN
        /\ callPc' = [callPc EXCEPT ![c] = IF ok THEN "write" ELSE "idle"]
        /\ callResult' = [callResult EXCEPT ![c] =
                            IF ok THEN NoResult
                            ELSE IF callOp[c].method = "AddLevel"
                            THEN Errorf("LogLevel already set",
                                        String(callOp[c].level))
                            ELSE Errorf("LogLevel not set",
                                        String(callOp[c].level))]
        /\ callOp' = [callOp EXCEPT ![c] = IF ok THEN @ ELSE NoOp]
    /\ UNCHANGED <<auxVars, dispVars, prodVars, logLevels, backends, mutex,
                   callTodo, callCount, printed, forwarded, exited>>

\* the then branch: Lock, change l.logLevels, Unlock, return nil
LevelOpWrite(c) ==
    /\ ~exited
    /\ callPc[c] = "write"
    /\ mutex = "free"
    /\ logLevels' = IF callOp[c].method = "AddLevel"
                    THEN logLevels \cup {callOp[c].level}
                    ELSE logLevels \ {callOp[c].level}
    /\ callPc' = [callPc EXCEPT ![c] = "idle"]
    /\ callResult' = [callResult EXCEPT ![c] = NilError]
    /\ callOp' = [callOp EXCEPT ![c] = NoOp]
    /\ UNCHANGED <<auxVars, dispVars, prodVars, backends, mutex, callTodo,
                   callCount, printed, forwarded, exited>>

\* the names AddBackend, GetBackend and RemoveBackend are called with
BackendNames == {"print", "http"}

\* the Backend values they are called with: a PrintBackend and the
\* HttpClientBackend hb
BackendValues == {"PrintBackend", "HttpClientBackend"}

\* backendAdded: the map lookup made under the mutex
backendAdded(bs, name) == name \in DOMAIN bs

\* mutant: Lock returns at once
CanLock_Always(m) == TRUE

\* l.Lock() returns only when no goroutine holds the mutex
CanLock(m) == m = "free"

\* l.backends[name] = backend
MapStore(bs, name, backend) ==
    [n \in DOMAIN bs \cup {name} |-> IF n = name THEN backend ELSE bs[n]]

\* mutant: the whole map is emptied
MapDelete_All(bs, name) == <<>>

\* delete(l.backends, name)
MapDelete(bs, name) == [n \in DOMAIN bs \ {name} |-> bs[n]]

\* a caller invokes AddBackend(name, backend), RemoveBackend(name, backend)
\* or GetBackend(name)
CallBackendOp(c, m, name, backend) ==
    /\ ~exited
    /\ callPc[c] = "idle"
    /\ TotalCalls < MaxCalls
    /\ callCount' = [callCount EXCEPT ![c] = @ + 1]
    /\ callOp' = [callOp EXCEPT ![c] =
                    [method |-> m, level |-> INFO, enabled |-> FALSE,
                     name |-> name, backend |-> backend]]
    /\ callPc' = [callPc EXCEPT ![c] =
                    IF m = "GetBackend" THEN "getBackend" ELSE "checkBackend"]
    /\ callResult' = [callResult EXCEPT ![c] = NoResult]
    /\ UNCHANGED <<auxVars, dispVars, prodVars, logLevels, backends, mutex,
                   callTodo, printed, forwarded, exited>>

\* mutant: the backend is stored whatever the map holds
AddBackendCond_Always(bs, name) == TRUE

\* the condition of AddBackend: !l.backendAdded(name)
AddBackendCond(bs, name) == ~backendAdded(bs, name)

\* the condition of RemoveBackend: l.backendAdded(name)
RemoveBackendCond(bs, name) == backendAdded(bs, name)

\* the if of AddBackend and RemoveBackend: backendAdded runs under the
\* mutex; the else branch returns the error
BackendOpCheck(c) ==
    /\ ~exited
    /\ callPc[c] = "checkBackend"
    /\ CanLock(mutex)
    /\ LET ok == IF callOp[c].method = "AddBackend"
                 THEN AddBackendCond(backends, callOp[c].name)
                 ELSE RemoveBackendCond(backends, callOp[c].name) IN
        /\ callPc' = [callPc EXCEPT ![c] =
                        IF ok THEN "writeBackend" ELSE "idle"]
        /\ callResult' = [callResult EXCEPT ![c] =
                            IF ok THEN NoResult
                            ELSE IF callOp[c].method = "AddBackend"
                            THEN Errorf("Backend with that name already exists",
                                        callOp[c].name)
                            ELSE Errorf("Backend with that name does not exist",
                                        callOp[c].name)]
        /\ callOp' = [callOp EXCEPT ![c] = IF ok THEN @ ELSE NoOp]
    /\ UNCHANGED <<auxVars, dispVars, prodVars, logLevels, backends, mutex,
                   callTodo, callCount, printed, forwarded, exited>>

\* the then branch: Lock, change l.backends, Unlock, return nil
BackendOpWrite(c) ==
    /\ ~exited
    /\ callPc[c] = "writeBackend"
    /\ CanLock(mutex)
    /\ IF callOp[c].method = "AddBackend"
       THEN /\ backends' = MapStore(backends, callOp[c].name,
                                    callOp[c].backend)
            /\ lastAdded' = [n \in DOMAIN lastAdded \cup {callOp[c].name} |->
                                IF n = callOp[c].name THEN callOp[c].backend
                                ELSE lastAdded[n]]
       ELSE /\ backends' = MapDelete(backends, callOp[c].name)
            /\ lastAdded' = [n \in DOMAIN lastAdded \ {callOp[c].name} |->
                                lastAdded[n]]
    /\ callPc' = [callPc EXCEPT ![c] = "idle"]
    /\ callResult' = [callResult EXCEPT ![c] = NilError]
    /\ callOp' = [callOp EXCEPT ![c] = NoOp]
    /\ UNCHANGED <<codecVars, dispVars, prodVars, logLevels, mutex, callTodo,
                   callCount, printed, forwarded, exited>>

\* the body of GetBackend: Lock, look the name up, return &b or the error;
\* the deferred Unlock runs
GetBackend(c) ==
    /\ ~exited
    /\ callPc[c] = "getBackend"
    /\ CanLock(mutex)
    /\ callResult' = [callResult EXCEPT ![c] =
                        IF callOp[c].name \in DOMAIN backends
                        THEN [NilError EXCEPT
                                !.value = backends[callOp[c].name]]
                        ELSE Errorf("Backend with that name does not exist",
                                    callOp[c].name)]
    /\ callPc' = [callPc EXCEPT ![c] = "idle"]
    /\ callOp' = [callOp EXCEPT ![c] = NoOp]
    /\ UNCHANGED <<auxVars, dispVars, prodVars, logLevels, backends, mutex,
                   callTodo, callCount, printed, forwarded, exited>>

\* a JSON document: a string literal (its characters after decoding, and
\* whether the literal spells some of them as \\u escapes), another kind of
\* value, or bytes that are not JSON
JsonString(chars, esc) == [kind |-> "string", chars |-> chars, esc |-> esc]
JsonOther(kind) == [kind |-> kind, chars |-> "", esc |-> FALSE]
NoData == JsonOther("none")

\* the strings the decoders are given inside string literals: the six names
\* and strings that are none of them
DocStrings == DOMAIN logLevelNameToValue \cup {"", "info", "TRACE"}

\* the documents UnmarshalJSON is called with
JsonDocs ==
    {JsonString(chars, FALSE) : chars \in DocStrings}
        \cup {JsonString(chars, TRUE) : chars \in DocStrings \ {""}}
        \cup {JsonOther(kind) : kind \in {"number", "null", "bool", "object",
                                           "array", "invalid"}}

\* the LogLevel values MarshalJSON is called with and UnmarshalJSON stores
\* into: LogLevel is a byte
LevelBytes == 0 .. MaxLevelByte

\* json.Marshal(s) for a string s of ASCII letters: the quoted literal,
\* without escapes
jsonMarshalString(chars) == JsonString(chars, FALSE)

\* json.Unmarshal(data, &s) for var s string: a string literal is decoded
\* into s, null leaves s as it is (empty) and returns nil, everything else
\* is an error
jsonUnmarshalString(data) ==
    CASE data.kind = "string" -> [err |-> FALSE, s |-> data.chars]
      [] data.kind = "null" -> [err |-> FALSE, s |-> ""]
      [] OTHER -> [err |-> TRUE, s |-> ""]

\* LogLevel.MarshalJSON
MarshalJSON(l) ==
    IF l \notin DOMAIN logLevelValueToName
    THEN [data |-> NoData, err |-> "invalid LogLevel"]
    ELSE [data |-> jsonMarshalString(logLevelValueToName[l]), err |-> "nil"]

\* LogLevel.UnmarshalJSON called on a variable that holds l: the value the
\* variable holds afterwards and the error
UnmarshalJSON(l, data) ==
    LET r == jsonUnmarshalString(data) IN
    IF r.err
    THEN [l |-> l, err |-> "LogLevel should be a string"]
    ELSE IF r.s \notin DOMAIN logLevelNameToValue
    THEN [l |-> l, err |-> "invalid LogLevel"]
    ELSE [l |-> logLevelNameToValue[r.s], err |-> "nil"]

\* no encoder or decoder runs
InitIdleCodec ==
    /\ codecIn = INFO
    /\ codecData = NoData
    /\ codecOut = INFO
    /\ codecErr = "none"
    /\ codecPc = "idle"

\* a LogLevel to encode and a LogLevel variable to decode into
InitCodec ==
    /\ codecIn \in LevelBytes
    /\ codecOut \in LevelBytes
    /\ codecData = NoData
    /\ codecErr = "none"
    /\ codecPc = "start"

\* data, err := codecIn.MarshalJSON()
MarshalLevel ==
    /\ codecPc = "start"
    /\ codecData' = MarshalJSON(codecIn).data
    /\ codecErr' = MarshalJSON(codecIn).err
    /\ codecPc' = "marshalled"
    /\ UNCHANGED <<codecIn, codecOut, lastAdded, dispVars, prodVars,
                   loggerVars>>

\* err = codecOut.UnmarshalJSON(data) on the bytes MarshalJSON returned
UnmarshalLevel ==
    /\ codecPc = "marshalled"
    /\ codecErr = "nil"
    /\ codecOut' = UnmarshalJSON(codecOut, codecData).l
    /\ codecErr' = UnmarshalJSON(codecOut, codecData).err
    /\ codecPc' = "done"
    /\ UNCHANGED <<codecIn, codecData, lastAdded, dispVars, prodVars,
                   loggerVars>>

\* err := codecOut.UnmarshalJSON(data) on bytes from elsewhere
DecodeDoc ==
    /\ codecPc = "start"
    /\ \E data \in JsonDocs :
        /\ codecData' = data
        /\ codecOut' = UnmarshalJSON(codecOut, data).l
        /\ codecErr' = UnmarshalJSON(codecOut, data).err
    /\ codecPc' = "decoded"
    /\ UNCHANGED <<codecIn, lastAdded, dispVars, prodVars, loggerVars>>

\* a Go string is a sequence of characters: "a" stands for an ASCII letter,
\* "<" for a character json.Marshal escapes, "xFF" for a byte that is not
\* valid UTF-8 and "uFFFD" for the replacement character U+FFFD
GoChars == {"a", "<", "xFF", "uFFFD"}

\* json.Marshal on one character of a string: what it writes between the
\* quotes.  HTML characters become \\u003c and the like, invalid UTF-8
\* becomes \\ufffd
jsonEncodeChar(ch) ==
    CASE ch = "<" -> "\\u003c"
      [] ch = "xFF" -> "\\ufffd"
      [] OTHER -> ch

\* mutant: escapes are not read
jsonDecodeChar_Raw(tok) == tok

\* json.Unmarshal on one character or escape of a string literal
jsonDecodeChar(tok) ==
    CASE tok = "\\u003c" -> "<"
      [] tok = "\\ufffd" -> "uFFFD"
      [] tok = "xFF" -> "uFFFD"
      [] OTHER -> tok

\* json.Marshal and json.Unmarshal on a string field
jsonQuote(str) == [i \in 1 .. Len(str) |-> jsonEncodeChar(str[i])]
jsonUnquote(lit) == [i \in 1 .. Len(lit) |-> jsonDecodeChar(lit[i])]

\* json.Marshal on an int field: its decimal digits
RECURSIVE jsonDigits(_)
jsonDigits(n) ==
    IF n < 10 THEN <<n>> ELSE Append(jsonDigits(n \div 10), n % 10)

\* json.Unmarshal of a number into an int field
RECURSIVE jsonParseInt(_)
jsonParseInt(ds) ==
    IF Len(ds) = 0 THEN 0
    ELSE jsonParseInt(SubSeq(ds, 1, Len(ds) - 1)) * 10 + ds[Len(ds)]

\* json.Marshal on a LogEntry: the object with the keys of the json tags;
\* the level is what MarshalJSON returns
jsonMarshalEntry(e) ==
    [level |-> MarshalJSON(e.Level).data,
     caller |-> jsonQuote(e.Caller),
     path |-> jsonQuote(e.Path),
     file |-> jsonQuote(e.File),
     line |-> jsonDigits(e.Line),
     message |-> jsonQuote(e.Message)]

\* json.Unmarshal of such an object into a LogEntry of a new slice
jsonUnmarshalEntry(o) ==
    [Level |-> UnmarshalJSON(INFO, o.level).l,
     Caller |-> jsonUnquote(o.caller),
     Path |-> jsonUnquote(o.path),
     File |-> jsonUnquote(o.file),
     Line |-> jsonParseInt(o.line),
     Message |-> jsonUnquote(o.message)]

\* data, err := json.Marshal(buffer) in doSend: the object with the key
\* logentries, or the error of a MarshalJSON
jsonMarshalBuffer(entries) ==
    IF \E i \in 1 .. Len(entries) : MarshalJSON(entries[i].Level).err # "nil"
    THEN [data |-> [logentries |-> <<>>], err |-> "unable to Marshal JSON"]
    ELSE [data |-> [logentries |->
                      [i \in 1 .. Len(entries) |->
                          jsonMarshalEntry(entries[i])]],
          err |-> "nil"]

\* json.Unmarshal(bytes, &b) in the receiving server, b := logbuffer{}
jsonUnmarshalBuffer(data) ==
    [i \in 1 .. Len(data.logentries) |->
        jsonUnmarshalEntry(data.logentries[i])]

\* the messages, lines and records doSend is called with
PayloadMessages == {<<>>, <<"a">>, <<"a", "<">>, <<"uFFFD", "a">>,
                    <<"xFF", "a">>}
PayloadLines == {0, 10}
PayloadEntries ==
    [Level : LogLevels, Caller : {<<"a", "a">>}, Path : {<<>>},
     File : {<<"a">>}, Line : PayloadLines, Message : PayloadMessages]

\* a buffer handed to doSend and an empty logbuffer to decode into
InitPayload ==
    /\ \E n \in 1 .. MaxBufsize : codecIn \in [1 .. n -> PayloadEntries]
    /\ codecOut = <<>>
    /\ codecData = NoData
    /\ codecErr = "none"
    /\ codecPc = "start"

\* doSend: data, err := json.Marshal(buffer)
MarshalBuffer ==
    /\ codecPc = "start"
    /\ codecData' = jsonMarshalBuffer(codecIn).data
    /\ codecErr' = jsonMarshalBuffer(codecIn).err
    /\ codecPc' = "posted"
    /\ UNCHANGED <<codecIn, codecOut, lastAdded, dispVars, prodVars,
                   loggerVars>>

\* the server decodes the body of the POST
UnmarshalBuffer ==
    /\ codecPc = "posted"
    /\ codecErr = "nil"
    /\ codecOut' = jsonUnmarshalBuffer(codecData)
    /\ codecPc' = "received"
    /\ UNCHANGED <<codecIn, codecData, codecErr, lastAdded, dispVars,
                   prodVars, loggerVars>>

\* Spec: no goroutine uses a Logger
InitIdleLogger ==
    /\ logLevels = {}
    /\ backends = <<>>
    /\ mutex = "free"
    /\ callPc = [c \in Callers |-> "idle"]
    /\ callOp = [c \in Callers |-> NoOp]
    /\ callTodo = [c \in Callers |-> {}]
    /\ callCount = [c \in Callers |-> 0]
    /\ callResult = [c \in Callers |-> NoResult]
    /\ printed = <<>>
    /\ forwarded = <<>>
    /\ exited = FALSE
    /\ lastAdded = backends

Init ==
    /\ InitBackend
    /\ InitIdleLogger
    /\ InitIdleCodec
    /\ prodPc = [p \in Producers |-> "idle"]
    /\ prodCalls = [p \in Producers |-> 0]

Next ==
    \/ TimerFire
    \/ CloseStop
    \/ RecvEntry
    \/ TimerTick
    \/ StopCase
    \/ DoSendReturn
    \/ \E p \in Producers : LogCall(p)
    \/ \E p \in Producers : LogSend(p)

Spec == Init /\ [][Next]_vars

\* LoggerSpec: the callers log through a Logger; no goroutine calls
\* HttpClientBackend.Log directly.  The http backend is constructed with
\* bufsize 0, its ticker does not fire and Stop is not closed.
LoggerInit ==
    /\ InitBackend
    /\ bufsize = 0
    /\ InitLogger
    /\ InitIdleCodec
    /\ prodPc = [p \in Producers |-> "idle"]
    /\ prodCalls = [p \in Producers |-> 0]

LoggerNext ==
    \/ RecvEntry
    \/ DoSendReturn
    \/ \E c \in Callers, m \in Methods : CallMethod(c, m)
    \/ \E c \in Callers : LevelCheck(c)
    \/ \E c \in Callers : SendLock(c)
    \/ \E c \in Callers, name \in DOMAIN backends : DispatchPrint(c, name)
    \/ \E c \in Callers, name \in DOMAIN backends : DispatchHttp(c, name)
    \/ \E c \in Callers : SendUnlock(c)
    \/ \E c \in Callers : Exit(c)
    \/ \E c \in Callers, m \in {"AddLevel", "RemoveLevel"}, level \in LevelArgs :
          CallLevelOp(c, m, level)
    \/ \E c \in Callers : LevelOpCheck(c)
    \/ \E c \in Callers : LevelOpWrite(c)

LoggerSpec == LoggerInit /\ [][LoggerNext]_vars

\* RegistrySpec: one goroutine configures the Logger, one call after the
\* other
RegistryNext ==
    \/ \E m \in {"AddLevel", "RemoveLevel"}, level \in LevelArgs :
          CallLevelOp("c1", m, level)
    \/ LevelOpCheck("c1")
    \/ LevelOpWrite("c1")
    \/ \E m \in {"AddBackend", "RemoveBackend"}, name \in BackendNames,
          backend \in BackendValues : CallBackendOp("c1", m, name, backend)
    \/ BackendOpCheck("c1")
    \/ BackendOpWrite("c1")
    \/ \E name \in BackendNames :
          CallBackendOp("c1", "GetBackend", name, "none")
    \/ GetBackend("c1")

RegistrySpec == LoggerInit /\ [][RegistryNext]_vars

\* RaceSpec: two goroutines configure the Logger at the same time
RaceNext ==
    \/ \E c \in Callers, m \in {"AddLevel", "RemoveLevel"},
          level \in LevelArgs : CallLevelOp(c, m, level)
    \/ \E c \in Callers : LevelOpCheck(c)
    \/ \E c \in Callers : LevelOpWrite(c)
    \/ \E c \in Callers, m \in {"AddBackend", "RemoveBackend"},
          name \in BackendNames, backend \in BackendValues :
          CallBackendOp(c, m, name, backend)
    \/ \E c \in Callers, name \in BackendNames :
          CallBackendOp(c, "GetBackend", name, "none")
    \/ \E c \in Callers : BackendOpCheck(c)
    \/ \E c \in Callers : BackendOpWrite(c)
    \/ \E c \in Callers : GetBackend(c)

RaceSpec == LoggerInit /\ [][RaceNext]_vars

\* DispatchSpec: the callers log through the Logger while they register
\* and remove backends; the http backend runs as in LoggerSpec
DispatchNext ==
    \/ RecvEntry
    \/ DoSendReturn
    \/ \E c \in Callers, m \in Methods : CallMethod(c, m)
    \/ \E c \in Callers : LevelCheck(c)
    \/ \E c \in Callers : SendLock(c)
    \/ \E c \in Callers, name \in DOMAIN backends : DispatchPrint(c, name)
    \/ \E c \in Callers, name \in DOMAIN backends : DispatchHttp(c, name)
    \/ \E c \in Callers : SendUnlock(c)
    \/ \E c \in Callers : Exit(c)
    \/ \E c \in Callers, m \in {"AddBackend", "RemoveBackend"},
          name \in BackendNames, backend \in BackendValues :
          CallBackendOp(c, m, name, backend)
    \/ \E c \in Callers : BackendOpCheck(c)
    \/ \E c \in Callers : BackendOpWrite(c)

DispatchSpec == LoggerInit /\ [][DispatchNext]_vars

\* the first n records producer p1 passes to HttpClientBackend.Log
FirstLogs(n) == [i \in 1 .. n |-> EntryOf("p1", i)]

\* a Logger as in LoggerSpec whose http backend has been given LogchanCap
\* records, or one less, directly: p1's calls of HttpClientBackend.Log
\* have returned and startClient has not received yet
QueuedInit ==
    /\ bufsize = 0
    /\ \E n \in LogchanCap - 1 .. LogchanCap :
        /\ logchan = FirstLogs(n)
        /\ arrived = FirstLogs(n)
        /\ prodCalls = [p \in Producers |-> IF p = "p1" THEN n ELSE 0]
    /\ Stop = FALSE
    /\ timerC = 0
    /\ buffer = <<>>
    /\ taskPc = "select"
    /\ trigger = "none"
    /\ internalLog = 0
    /\ stopObserved = 0
    /\ deliveries = <<>>
    /\ InitLogger
    /\ InitIdleCodec
    /\ prodPc = [p \in Producers |-> "idle"]

\* the methods and arguments the callers of BlockSpec use: a method with
\* the level check and one without, an enabled and a disabled level
BlockMethods == {"Info", "Debugf", "Fatal"}
BlockLevels == {INFO, DEBUG}

\* the callers that configure the Logger besides logging
Configurers == {"c2"}

\* BlockSpec: both callers log, one of them also uses every other method
\* of the Logger; the http backend runs as in LoggerSpec
BlockNext ==
    \/ RecvEntry
    \/ DoSendReturn
    \/ \E c \in Callers, m \in BlockMethods : CallMethod(c, m)
    \/ \E c \in Callers : LevelCheck(c)
    \/ \E c \in Callers : SendLock(c)
    \/ \E c \in Callers, name \in DOMAIN backends : DispatchPrint(c, name)
    \/ \E c \in Callers, name \in DOMAIN backends : DispatchHttp(c, name)
    \/ \E c \in Callers : SendUnlock(c)
    \/ \E c \in Callers : Exit(c)
    \/ \E c \in Configurers, m \in {"AddLevel", "RemoveLevel"},
          level \in BlockLevels : CallLevelOp(c, m, level)
    \/ \E c \in Configurers : LevelOpCheck(c)
    \/ \E c \in Configurers : LevelOpWrite(c)
    \/ \E c \in Configurers, m \in {"AddBackend", "RemoveBackend"},
          name \in BackendNames, backend \in BackendValues :
          CallBackendOp(c, m, name, backend)
    \/ \E c \in Configurers, name \in BackendNames :
          CallBackendOp(c, "GetBackend", name, "none")
    \/ \E c \in Configurers : BackendOpCheck(c)
    \/ \E c \in Configurers : BackendOpWrite(c)
    \/ \E c \in Configurers : GetBackend(c)

BlockSpec == QueuedInit /\ [][BlockNext]_vars

\* CodecSpec: a LogLevel is encoded and decoded again, or a document is
\* decoded into a LogLevel variable; nothing else runs
CodecInit ==
    /\ InitBackend
    /\ bufsize = 0
    /\ InitIdleLogger
    /\ InitCodec
    /\ prodPc = [p \in Producers |-> "idle"]
    /\ prodCalls = [p \in Producers |-> 0]

CodecNext ==
    \/ MarshalLevel
    \/ UnmarshalLevel
    \/ DecodeDoc

CodecSpec == CodecInit /\ [][CodecNext]_vars

\* PayloadSpec: doSend encodes a buffer and the server decodes the payload;
\* nothing else runs
PayloadInit ==
    /\ InitBackend
    /\ bufsize = 0
    /\ InitIdleLogger
    /\ InitPayload
    /\ prodPc = [p \in Producers |-> "idle"]
    /\ prodCalls = [p \in Producers |-> 0]

PayloadNext ==
    \/ MarshalBuffer
    \/ UnmarshalBuffer

PayloadSpec == PayloadInit /\ [][PayloadNext]_vars

TypeOK ==
    /\ bufsize \in Bufsizes
    /\ Len(logchan) <= LogchanCap
    /\ Stop \in BOOLEAN
    /\ timerC \in 0 .. 1
    /\ taskPc \in {"select", "doSend", "returned"}
    /\ trigger \in {"none", "entry", "tick"}
    /\ stopObserved \in 0 .. MaxStopObserved
    /\ prodPc \in [Producers -> {"idle", "send"}]
    /\ prodCalls \in [Producers -> 0 .. MaxLogs]


(***************************************************************************)
(* Fairness of the scheduling: the Go runtime runs a goroutine that can    *)
(* take a step, select picks among its ready cases at random (so a case    *)
(* that is ready again and again is taken), the ticker keeps ticking and   *)
(* doSend returns.                                                         *)
(***************************************************************************)
Fairness ==
    /\ WF_vars(TimerFire)
    /\ WF_vars(DoSendReturn)
    /\ SF_vars(RecvEntry)
    /\ SF_vars(TimerTick)
    /\ SF_vars(StopCase)

FairSpec == Spec /\ Fairness

\* RunningSpec: FairSpec for a backend whose Stop channel is never closed
RunningNext ==
    \/ TimerFire
    \/ RecvEntry
    \/ TimerTick
    \/ DoSendReturn
    \/ \E p \in Producers : LogCall(p)
    \/ \E p \in Producers : LogSend(p)

\* the goroutine takes a step it can take for ever, the ticker keeps
\* ticking and doSend returns: less than Fairness asks for
WeakFairness ==
    /\ WF_vars(TimerFire)
    /\ WF_vars(DoSendReturn)
    /\ WF_vars(RecvEntry)
    /\ WF_vars(TimerTick)

RunningSpec == Init /\ [][RunningNext]_vars /\ WeakFairness

\* LiveSpec: callers log through a Logger whose http backend, constructed
\* with bufsize MaxBufsize, already holds LogchanCap records, while a
\* goroutine configures the Logger, the ticker ticks, deliveries succeed or
\* fail and the implementer closes Stop at any moment, at most once
LiveInit ==
    /\ bufsize = MaxBufsize
    /\ logchan = FirstLogs(LogchanCap)
    /\ arrived = FirstLogs(LogchanCap)
    /\ prodCalls = [p \in Producers |-> IF p = "p1" THEN LogchanCap ELSE 0]
    /\ Stop = FALSE
    /\ timerC = 0
    /\ buffer = <<>>
    /\ taskPc = "select"
    /\ trigger = "none"
    /\ internalLog = 0
    /\ stopObserved = 0
    /\ deliveries = <<>>
    /\ InitLogger
    /\ InitIdleCodec
    /\ prodPc = [p \in Producers |-> "idle"]

\* the leveled methods the callers of LiveSpec use
LiveMethods == {"Info", "Fatal"}

\* the steps of a call of caller c, from its first Lock to its return
CallerStep(c) ==
    \/ LevelCheck(c)
    \/ SendLock(c)
    \/ \E name \in BackendNames : DispatchPrint(c, name)
    \/ \E name \in BackendNames : DispatchHttp(c, name)
    \/ SendUnlock(c)
    \/ Exit(c)
    \/ LevelOpCheck(c)
    \/ LevelOpWrite(c)
    \/ BackendOpCheck(c)
    \/ BackendOpWrite(c)
    \/ GetBackend(c)

LiveNext ==
    \/ TimerFire
    \/ CloseStop
    \/ RecvEntry
    \/ TimerTick
    \/ StopCase
    \/ DoSendReturn
    \/ \E c \in Callers, m \in LiveMethods : CallMethod(c, m)
    \/ \E c \in Callers : LevelCheck(c)
    \/ \E c \in Callers : SendLock(c)
    \/ \E c \in Callers, name \in DOMAIN backends : DispatchPrint(c, name)
    \/ \E c \in Callers, name \in DOMAIN backends : DispatchHttp(c, name)
    \/ \E c \in Callers : SendUnlock(c)
    \/ \E c \in Callers : Exit(c)
    \/ \E c \in Configurers, m \in {"AddLevel", "RemoveLevel"} :
          CallLevelOp(c, m, INFO)
    \/ \E c \in Configurers : LevelOpCheck(c)
    \/ \E c \in Configurers : LevelOpWrite(c)
    \/ \E c \in Configurers, m \in {"AddBackend", "RemoveBackend"} :
          CallBackendOp(c, m, "http", "HttpClientBackend")
    \/ \E c \in Configurers : CallBackendOp(c, "GetBackend", "http", "none")
    \/ \E c \in Configurers : BackendOpCheck(c)
    \/ \E c \in Configurers : BackendOpWrite(c)
    \/ \E c \in Configurers : GetBackend(c)

\* every doSend call returns, startClient takes a case of its select that
\* stays ready, and a goroutine that can go on with its call does so; the
\* ticker and the implementer's close(h.Stop) are under no obligation
LiveFairness ==
    /\ WF_vars(DoSendReturn)
    /\ WF_vars(RecvEntry)
    /\ \A c \in Callers : WF_vars(CallerStep(c))

LiveSpec == LiveInit /\ [][LiveNext]_vars /\ LiveFairness

(***************************************************************************)
(* Properties                                                              *)
(***************************************************************************)
\* the records startClient has received from logchan
Received == Len(arrived) - Len(logchan)

\* the records passed to doSend so far, in order
Delivered == Flatten(deliveries)

\* a step in which startClient receives a record from logchan
RecvStep == arrived' = arrived /\ Len(logchan') < Len(logchan)

\* a step in which startClient consumes a tick
TickStep == timerC = 1 /\ timerC' = 0

\* a step in which startClient calls doSend
SendStep == Len(deliveries') = Len(deliveries) + 1

\* a step in which doSend returns
ReturnStep == taskPc = "doSend" /\ taskPc' = "select"

\* C1: once startClient has observed the stop signal it never calls doSend
\* again, whatever is left in the batch or the queue.
C1_ShutdownQuiescence ==
    [][stopObserved > 0 => deliveries' = deliveries]_vars

\* C2: after Stop is closed, startClient eventually returns.
C2_StopTerminates == Stop ~> (taskPc = "returned")

\* C3: the concatenation of the batches passed to doSend is a prefix of the
\* records in the order they entered logchan, without repetition.
C3_FifoDelivery ==
    /\ IsPrefix(Delivered, arrived)
    /\ NoDuplicates(Delivered)

C3_Witness ==
    /\ Len(deliveries) >= 2
    /\ \E i \in 1 .. Len(deliveries) :
        /\ Len(deliveries[i]) = 2
        /\ deliveries[i][1].Caller # deliveries[i][2].Caller

\* C4: with threshold N > 0 the batch never exceeds N, a received record
\* triggers a delivery iff it brings the batch to N records, that delivery
\* carries exactly those N records and the batch is empty after it.
C4_SizeInv ==
    bufsize > 0 =>
        /\ Len(buffer) <= bufsize
        /\ taskPc = "select" => Len(buffer) < bufsize
        /\ (taskPc = "doSend" /\ trigger = "entry") =>
              /\ Len(deliveries[Len(deliveries)]) = bufsize
              /\ deliveries[Len(deliveries)] = buffer

C4_SizeStep ==
    bufsize > 0 =>
        /\ RecvStep => (SendStep <=> Len(buffer') = bufsize)
        /\ RecvStep => buffer' = Append(buffer, Head(logchan))
        /\ (ReturnStep /\ trigger = "entry") => buffer' = <<>>

\* C4 (size trigger): the invariant and the step property together.
C4_SizeTrigger == []C4_SizeInv /\ [][C4_SizeStep]_vars

C4_Witness ==
    /\ bufsize = 2
    /\ taskPc = "select"
    /\ timerC = 0
    /\ deliveries = <<arrived>>
    /\ Len(arrived) = 2
    /\ arrived[1].Caller # arrived[2].Caller
    /\ buffer = <<>>

\* C5: a tick delivers the whole batch when it is non-empty and does nothing
\* when it is empty; no call of doSend carries an empty batch.
C5_TickStep ==
    TickStep =>
        /\ buffer # <<>> => deliveries' = Append(deliveries, buffer)
        /\ buffer = <<>> =>
              /\ deliveries' = deliveries
              /\ taskPc' = taskPc
        /\ buffer' = buffer

\* C5 (time trigger, no empty payload): no empty batch is passed to doSend
\* and a tick sends exactly a non-empty batch.
C5_NoEmptyPayload ==
    /\ [](\A i \in 1 .. Len(deliveries) : Len(deliveries[i]) >= 1)
    /\ []((taskPc = "doSend") => buffer # <<>>)
    /\ [][C5_TickStep]_vars
    /\ [][(ReturnStep /\ trigger = "tick") => buffer' = <<>>]_vars

C5_Witness ==
    /\ taskPc = "doSend"
    /\ trigger = "tick"
    /\ bufsize = 2
    /\ Len(buffer) = 1
    /\ deliveries[Len(deliveries)] = buffer

\* C6: with threshold 0 every received record is delivered alone, the batch
\* is empty whenever startClient waits in the select, no tick delivers and
\* there are as many doSend calls as records received.
C6_ImmediateMode ==
    bufsize = 0 =>
        /\ \A i \in 1 .. Len(deliveries) : Len(deliveries[i]) = 1
        /\ taskPc = "select" => buffer = <<>>
        /\ trigger # "tick"
        /\ Len(deliveries) = Received
        /\ Delivered = SubSeq(arrived, 1, Received)

C6_Witness ==
    /\ bufsize = 0
    /\ Len(deliveries) >= 3
    /\ taskPc = "select"
    /\ timerC = 1

\* C7: whatever doSend returns, the batch is cleared and none of its records
\* goes back to the queue; no record is in two delivery attempts.
C7_DropStep ==
    ReturnStep =>
        /\ buffer' = <<>>
        /\ logchan' = logchan
        /\ arrived' = arrived
        /\ deliveries' = deliveries

\* C7 (at most once, no retry): no record is in two batches, a delivered
\* record is nowhere else, and a returning doSend only clears the batch.
C7_AtMostOnce ==
    /\ [](NoDuplicates(Delivered))
    /\ []((taskPc = "select") =>
            Range(Delivered) \cap (Range(buffer) \cup Range(logchan)) = {})
    /\ [][C7_DropStep]_vars

C7_Witness ==
    /\ internalLog >= 1
    /\ Len(deliveries) >= 2
    /\ internalLog = Len(deliveries)
    /\ taskPc = "select"
    /\ buffer = <<>>

\* C8: logchan never holds more than its capacity; a Log call at the send
\* proceeds iff there is a free slot, a blocked one is released only by
\* startClient receiving a record, and every Log call that returned has put
\* exactly one copy of its record into the queue.
Blocked(p) == prodPc[p] = "send" /\ Len(logchan) >= LogchanCap

Placed(p) == Cardinality({i \in 1 .. Len(arrived) : arrived[i].Caller = p})

C8_QueueInv ==
    /\ Len(logchan) <= LogchanCap
    /\ NoDuplicates(arrived)
    /\ \A p \in Producers :
        /\ Placed(p) = prodCalls[p] - (IF prodPc[p] = "send" THEN 1 ELSE 0)
        /\ prodPc[p] = "send" =>
              (ENABLED LogSend(p) <=> Len(logchan) < LogchanCap)

C8_QueueStep ==
    \A p \in Producers :
        /\ (Blocked(p) /\ ~Blocked(p)') => RecvStep
        /\ (prodPc[p] = "send" /\ prodPc'[p] = "idle") =>
              /\ logchan' = Append(logchan, EntryOf(p, prodCalls[p]))
              /\ Len(logchan) < LogchanCap

\* C8 (bounded queue with backpressure): the invariant and the step
\* property together.
C8_BoundedQueue == []C8_QueueInv /\ [][C8_QueueStep]_vars

C8_Witness ==
    \E p \in Producers :
        /\ Blocked(p)
        /\ \E q \in Producers \ {p} : prodPc[q] = "idle" /\ prodCalls[q] >= 1

\* the entries the producers pass to Log
AllEntries == {EntryOf(p, n) : p \in Producers, n \in 1 .. MaxLogs}

\* C9: when Stop is never closed, every record that entered logchan is
\* eventually passed to doSend, also when fewer records than the threshold
\* ever arrive.
C9_EventualFlush ==
    \A r \in AllEntries :
        (r \in Range(arrived)) ~> (r \in Range(Delivered))

C9_Witness ==
    /\ ~Stop
    /\ bufsize = 2
    /\ trigger = "tick"
    /\ taskPc = "doSend"
    /\ Len(arrived) = 1
    /\ deliveries = <<arrived>>

\* C10: a record is forwarded to a backend only if the severity of the
\* method was enabled on the Logger when the method was called.
C10_LevelGate ==
    \A i \in 1 .. Len(forwarded) : forwarded[i].enabled


\* the step in which caller c returns from level method m
LevelOpReturn(c, m) ==
    /\ callPc[c] \in {"check", "write"}
    /\ callOp[c].method = m
    /\ callPc'[c] = "idle"

\* C11 (level strictness): AddLevel on an enabled level returns the error
\* and leaves logLevels as it was, AddLevel on a disabled valid level
\* returns nil and adds exactly that level; RemoveLevel on a level that is
\* not enabled returns the error and leaves logLevels as it was,
\* RemoveLevel on an enabled level returns nil and removes exactly that
\* level; logLevels changes in no other step.
C11_LevelStrictness ==
    [][/\ \A c \in Callers :
            LET level == callOp[c].level IN
            /\ LevelOpReturn(c, "AddLevel") =>
                 IF level \in logLevels
                 THEN /\ callResult'[c] =
                            Errorf("LogLevel already set", String(level))
                      /\ logLevels' = logLevels
                 ELSE validLevel(level) =>
                      /\ callResult'[c] = NilError
                      /\ logLevels' = logLevels \cup {level}
            /\ LevelOpReturn(c, "RemoveLevel") =>
                 IF level \notin logLevels
                 THEN /\ callResult'[c] =
                            Errorf("LogLevel not set", String(level))
                      /\ logLevels' = logLevels
                 ELSE /\ callResult'[c] = NilError
                      /\ logLevels' = logLevels \ {level}
       /\ logLevels' # logLevels =>
            \E c \in Callers, m \in {"AddLevel", "RemoveLevel"} :
                LevelOpReturn(c, m) /\ callResult'[c] = NilError
      ]_vars

\* AddLevel(DEBUG) on a new Logger returned nil and the second
\* AddLevel(DEBUG) returned the error
C11_Witness ==
    /\ callCount["c1"] = 2
    /\ callPc["c1"] = "idle"
    /\ logLevels = {DEBUG}
    /\ callResult["c1"] = Errorf("LogLevel already set", "DEBUG")

\* the step in which caller c returns from AddBackend or RemoveBackend
BackendOpReturn(c, m) ==
    /\ callPc[c] \in {"checkBackend", "writeBackend"}
    /\ callOp[c].method = m
    /\ callPc'[c] = "idle"

\* C12 (backend uniqueness): AddBackend with a registered name returns the
\* error and leaves the map, and so the backend registered first, as it
\* was; in every state each name maps to the backend of the last
\* AddBackend that returned nil for it, unless a RemoveBackend removed it
\* since.
C12_BackendUniqueness ==
    /\ [](backends = lastAdded)
    /\ [][\A c \in Callers :
            (BackendOpReturn(c, "AddBackend")
                /\ callOp[c].name \in DOMAIN backends) =>
                /\ callResult'[c] =
                      Errorf("Backend with that name already exists",
                             callOp[c].name)
                /\ backends' = backends
         ]_vars

\* on a new Logger AddBackend("print", hb) returned nil and then
\* AddBackend("print", PrintBackend) returned the error: hb is retained
C12_Witness ==
    /\ callCount["c1"] = 2
    /\ callPc["c1"] = "idle"
    /\ callResult["c1"] =
          Errorf("Backend with that name already exists", "print")
    /\ backends = [n \in {"print", "http"} |-> "HttpClientBackend"]

\* the step in which caller c returns from GetBackend
GetBackendReturn(c) == callPc[c] = "getBackend" /\ callPc'[c] = "idle"

\* C13 (unregistered names): RemoveBackend and GetBackend with a name that
\* is not registered return the error and leave the map as it was;
\* RemoveBackend with a registered name returns nil and removes that entry
\* and no other, whatever backend is passed; GetBackend with a registered
\* name returns the backend registered under it and leaves the map as it
\* was.
C13_UnregisteredNames ==
    [][\A c \in Callers :
        LET name == callOp[c].name
            notExist == Errorf("Backend with that name does not exist", name)
        IN
        /\ BackendOpReturn(c, "RemoveBackend") =>
             IF name \notin DOMAIN backends
             THEN callResult'[c] = notExist /\ backends' = backends
             ELSE /\ callResult'[c] = NilError
                  /\ backends' = [n \in DOMAIN backends \ {name} |->
                                    backends[n]]
        /\ GetBackendReturn(c) =>
             /\ backends' = backends
             /\ IF name \notin DOMAIN backends
                THEN callResult'[c] = notExist
                ELSE /\ callResult'[c].err = "nil"
                     /\ callResult'[c].value = backends[name]
      ]_vars

\* on a Logger with the default backends RemoveBackend("http", _) returned
\* nil and left "print" registered, and the next GetBackend("http") or
\* RemoveBackend("http", _) returned the error
C13_Witness ==
    /\ callCount["c1"] = 2
    /\ callPc["c1"] = "idle"
    /\ callResult["c1"] =
          Errorf("Backend with that name does not exist", "http")
    /\ backends = [n \in {"print"} |-> "PrintBackend"]

\* the number of times Log was called with entry e on the backend
\* registered as name
LogCalls(e, name) ==
    Cardinality({i \in 1 .. Len(forwarded) :
                    forwarded[i].entry = e /\ forwarded[i].name = name})

\* the step in which sendToBackends returns to caller c
DispatchDone(c) == callPc[c] = "dispatch" /\ callPc'[c] # "dispatch"

\* C14 (forwarding to all sinks): when sendToBackends returns, Log has been
\* called with the call's record exactly once on every backend of the map
\* and on no other name, and the map does not change from the moment the
\* dispatch starts until it returns.
C14_ForwardToAll ==
    [][/\ \A c \in Callers :
            DispatchDone(c) =>
                \A name \in BackendNames :
                    LogCalls(CallEntry(c), name) =
                        IF name \in DOMAIN backends THEN 1 ELSE 0
       /\ (\E c \in Callers : callPc[c] = "dispatch") =>
            backends' = backends
      ]_vars

\* a dispatch has called Log on both backends of the map while the other
\* caller's AddBackend or RemoveBackend waits for the mutex
C14_Witness ==
    \E c \in Callers, d \in Callers :
        /\ callPc[c] = "dispatch"
        /\ callTodo[c] = {}
        /\ DOMAIN backends = {"print", "http"}
        /\ LogCalls(CallEntry(c), "print") = 1
        /\ LogCalls(CallEntry(c), "http") = 1
        /\ callPc[d] = "writeBackend"

\* the record of the Fatal or Fatalf call caller c is making or has made
FatalEntry(c) == [Level |-> FATAL, Caller |-> c, Line |-> callCount[c]]

\* C15 (Fatal ordering): when the dispatch of a Fatal or Fatalf call
\* returns, Log has been called with its record on every backend of the
\* map and the caller goes on to os.Exit(1), never back to its caller;
\* os.Exit is called only by a caller whose dispatch has returned; and a
\* caller whose dispatch has returned can call os.Exit as long as the
\* process runs.
C15_FatalOrdering ==
    /\ [][\A c \in Callers :
            /\ (DispatchDone(c)
                    /\ callOp[c].method \in {"Fatal", "Fatalf"}) =>
                    /\ callPc'[c] = "exit"
                    /\ \A name \in DOMAIN backends :
                          LogCalls(FatalEntry(c), name) = 1
            /\ (callPc'[c] = "exit" /\ callPc[c] # "exit") =>
                    /\ DispatchDone(c)
                    /\ callOp[c].method \in {"Fatal", "Fatalf"}
            /\ callPc[c] = "exit" => callPc'[c] = "exit"
         ]_vars
    /\ [][(exited' /\ ~exited) =>
            \E c \in Callers : callPc[c] = "exit" /\ mutex # c
         ]_vars
    /\ [](\A c \in Callers :
            (callPc[c] = "exit" /\ ~exited) => ENABLED Exit(c))

\* the process has exited after a Fatal call whose record both backends
\* were given
C15_Witness ==
    /\ exited
    /\ \E c \in Callers :
        /\ callPc[c] = "exit"
        /\ LogCalls(FatalEntry(c), "print") = 1
        /\ LogCalls(FatalEntry(c), "http") = 1

\* the number of h.Log calls of producer p that have returned
LogReturned(p) == prodCalls[p] - (IF prodPc[p] = "send" THEN 1 ELSE 0)

\* C16 (delivery failures stay on the diagnostic path): the step that
\* reports a doSend error to logInternal is taken by startClient after
\* doSend; it puts nothing into logchan, passes nothing to doSend, and
\* changes nothing a caller of Log or of a Logger method sees; the records
\* in logchan, in the buffer and passed to doSend are the records of the
\* callers' Log calls, one for each call that returned, and there are no
\* more error reports than doSend calls.
C16_DiagnosticPath ==
    /\ [][internalLog' # internalLog =>
            /\ taskPc = "doSend"
            /\ internalLog' = internalLog + 1
            /\ logchan' = logchan
            /\ arrived' = arrived
            /\ deliveries' = deliveries
            /\ prodVars' = prodVars
            /\ callPc' = callPc
            /\ callResult' = callResult
            /\ printed' = printed
            /\ forwarded' = forwarded
         ]_vars
    /\ [](Len(arrived) = LogReturned("p1") + LogReturned("p2"))
    /\ []((taskPc = "select") =>
            Len(Delivered) + Len(buffer) + Len(logchan) = Len(arrived))
    /\ [](internalLog <= Len(deliveries))

\* a doSend error has been reported while the channel is full and a
\* producer is blocked in Log
C16_Witness ==
    /\ internalLog = 1
    /\ Len(deliveries) = 1
    /\ taskPc = "select"
    /\ Len(logchan) = LogchanCap
    /\ \E p \in Producers : Blocked(p)

\* the six canonical names
CanonicalNames == {"INFO", "WARN", "ERROR", "CRITICAL", "FATAL", "DEBUG"}

\* the two maps are inverse bijections between the names and the members
MapsInverse ==
    /\ DOMAIN logLevelValueToName = LogLevels
    /\ DOMAIN logLevelNameToValue = CanonicalNames
    /\ \A l \in LogLevels : logLevelNameToValue[logLevelValueToName[l]] = l
    /\ \A n \in CanonicalNames :
          logLevelValueToName[logLevelNameToValue[n]] = n

\* C17 (severity round-trip): MarshalJSON succeeds on the six members and
\* UnmarshalJSON of its result stores the member that was encoded;
\* MarshalJSON of any other byte returns an error; the name and value maps
\* are inverse bijections; UnmarshalJSON of a document returns nil and
\* stores the value of the name when the document is a string literal of
\* one of the six names, and otherwise returns an error and leaves the
\* variable as it was.
C17_SeverityRoundTrip ==
    /\ [](MapsInverse)
    /\ []((codecPc = "marshalled") =>
            (codecErr = "nil" <=> codecIn \in LogLevels))
    /\ []((codecPc = "marshalled" /\ codecIn \in LogLevels) =>
            ENABLED UnmarshalLevel)
    /\ []((codecPc = "done") => (codecErr = "nil" /\ codecOut = codecIn))
    /\ [][codecPc' = "decoded" =>
            IF codecData'.kind = "string"
                  /\ codecData'.chars \in CanonicalNames
            THEN /\ codecErr' = "nil"
                 /\ String(codecOut') = codecData'.chars
            ELSE /\ codecErr' # "nil"
                 /\ codecOut' = codecOut
         ]_vars

\* DEBUG was encoded and decoded into a variable that now holds DEBUG
C17_Witness ==
    /\ codecPc = "done"
    /\ codecIn = DEBUG
    /\ codecOut = DEBUG
    /\ codecData = JsonString("DEBUG", FALSE)
    /\ codecErr = "nil"

\* str holds no byte that is not valid UTF-8
ValidUTF8(str) == \A i \in 1 .. Len(str) : str[i] # "xFF"

\* every string field of every record of the batch is valid UTF-8
BatchValidUTF8(entries) ==
    \A i \in 1 .. Len(entries) :
        /\ ValidUTF8(entries[i].Caller)
        /\ ValidUTF8(entries[i].Path)
        /\ ValidUTF8(entries[i].File)
        /\ ValidUTF8(entries[i].Message)

\* C18 as stated (payload round-trip): the payload of every batch of
\* records with valid severities decodes to the same number of records,
\* each equal to the original in all six fields, in the same order.
C18_PayloadRoundTrip_Stated ==
    (codecPc = "received") => codecOut = codecIn

\* C18 (payload round-trip): json.Marshal succeeds on every batch of
\* records with valid severities; the payload decodes to the same number
\* of records, in the same order, each equal to the original in level,
\* caller, path, file and line, and in the message when the message is
\* valid UTF-8; a batch whose string fields are all valid UTF-8 decodes to
\* itself.
C18_PayloadRoundTrip ==
    /\ (codecPc = "posted") => codecErr = "nil"
    /\ (codecPc = "received") =>
        /\ Len(codecOut) = Len(codecIn)
        /\ \A i \in 1 .. Len(codecIn) :
            /\ codecOut[i].Level = codecIn[i].Level
            /\ codecOut[i].Caller = codecIn[i].Caller
            /\ codecOut[i].Path = codecIn[i].Path
            /\ codecOut[i].File = codecIn[i].File
            /\ codecOut[i].Line = codecIn[i].Line
            /\ ValidUTF8(codecIn[i].Message) =>
                  codecOut[i].Message = codecIn[i].Message
        /\ BatchValidUTF8(codecIn) => codecOut = codecIn

\* a batch of two records with different levels and lines, one message
\* with an escaped character, has been decoded to itself
C18_Witness ==
    /\ codecPc = "received"
    /\ Len(codecIn) = 2
    /\ codecIn[1].Level = ERROR /\ codecIn[2].Level = INFO
    /\ codecIn[1].Line = 10 /\ codecIn[2].Line = 0
    /\ codecIn[1].Message = <<"a", "<">>
    /\ codecIn[2].Message = <<"uFFFD", "a">>
    /\ codecOut = codecIn

\* C19 (no busy-polling): startClient takes the stop case of its select at
\* most once.
C19_StopActedOnce == stopObserved <= 1

\* C20 (atomic registration): an AddBackend call that returns nil inserts
\* a name that is not registered at the moment of the insertion, and an
\* AddLevel call that returns nil enables a level that is disabled at that
\* moment, so that of two concurrent calls with the same name or level at
\* most one returns nil.
C20_AtomicRegistration ==
    [][\A c \in Callers :
        /\ (BackendOpReturn(c, "AddBackend") /\ callResult'[c] = NilError) =>
                callOp[c].name \notin DOMAIN backends
        /\ (LevelOpReturn(c, "AddLevel") /\ callResult'[c] = NilError) =>
                callOp[c].level \notin logLevels
      ]_vars

\* caller c is inside HttpClientBackend.Log and its send cannot proceed:
\* the backends left in its range loop are all the http backend, and
\* logchan is full
HttpBlocked(c) ==
    /\ callPc[c] = "dispatch"
    /\ callTodo[c] # {}
    /\ \A n \in callTodo[c] : backends[n] = "HttpClientBackend"
    /\ Len(logchan) >= LogchanCap

\* a step of caller d that starts with l.Lock()
MutexStep(d) ==
    \/ LevelCheck(d)
    \/ SendLock(d)
    \/ LevelOpCheck(d)
    \/ LevelOpWrite(d)
    \/ BackendOpCheck(d)
    \/ BackendOpWrite(d)
    \/ GetBackend(d)

\* caller d is at a l.Lock()
AtLock(d) ==
    callPc[d] \in {"levelSet", "log", "check", "write", "checkBackend",
                   "writeBackend", "getBackend"}

\* C21 (lock held across dispatch): a caller holds the mutex for as long as
\* it is in sendToBackends; while a caller is blocked in
\* HttpClientBackend.Log on a full logchan no other caller can take a step
\* that locks the mutex (the level check of a leveled method, the dispatch
\* of another record, AddLevel, RemoveLevel, AddBackend, GetBackend,
\* RemoveBackend), every caller at such a step stays where it is, and the
\* caller is blocked until startClient receives from logchan.
C21_LockHeldAcrossDispatch ==
    /\ [](\A c \in Callers : callPc[c] = "dispatch" => mutex = c)
    /\ [](\A c \in Callers : \A d \in Callers \ {c} :
            HttpBlocked(c) => ~ENABLED MutexStep(d))
    /\ [][\A c \in Callers :
            HttpBlocked(c) =>
                /\ \A d \in Callers \ {c} :
                      AtLock(d) => callPc'[d] = callPc[d]
                /\ ~HttpBlocked(c)' =>
                      (taskPc = "select" /\ taskPc' = "doSend"
                          /\ logchan' = Tail(logchan))
         ]_vars

\* c1 is blocked in HttpClientBackend.Log on the full logchan and c2 waits
\* for the mutex in GetBackend
C21_Witness ==
    /\ HttpBlocked("c1")
    /\ mutex = "c1"
    /\ callPc["c2"] = "getBackend"

\* a call of HttpClientBackend.Log by caller c through the Logger has not
\* returned: the http backend is still to be given c's record
InLog(c) ==
    /\ callPc[c] = "dispatch"
    /\ \E n \in callTodo[c] : backends[n] = "HttpClientBackend"

====
